---- MODULE Spec2Model ----
(***************************************************************************)
(* Shopping cart and free-gift subsystem of the EcommercePro storefront.   *)
(*                                                                         *)
(*   server : the cart routes of server/routes.ts over the MongoDB cart    *)
(*            item collection of server/utils/upload.ts (MongoDBStorage)   *)
(*   client : CartProvider of client/src/contexts/CartContext.tsx          *)
(*                                                                         *)
(* Spec       is the HTTP cart API driven by arbitrary requests, each      *)
(*            handler split at its awaits that separate a read of the      *)
(*            collection from the write that depends on it.                *)
(* SpecAdd    is Spec restricted to POST /api/cart/items.                  *)
(* SpecCart   is GET /api/cart (get or create the cart of an owner),       *)
(*            POST /api/cart/items and DELETE /api/products/:id driven by  *)
(*            arbitrary requests, over the Cart and Product collections.   *)
(* SpecClient is CartProvider (optimistic updates, rollback, the free-gift *)
(*            reconciliation effect) talking to the same routes; a request *)
(*            may fail before the server handles it.                       *)
(* FairSpecClient is CartProvider on a network that loses nothing, with    *)
(*            weak fairness of the render/effect step and of the server.   *)
(* FairSpecHeal is FairSpecClient on a network that may lose requests of   *)
(*            the reconciliation effect's addItem.                         *)
(* SpecPage   is the product page's handleAddToCart on top of CartProvider,*)
(*            in the behaviours in which every server call succeeds.       *)
(* SpecOrders is POST /api/orders driven by arbitrary requests.            *)
(* SpecAuth   is the password reset routes (forgot-password,               *)
(*            reset-password) driven by arbitrary requests.                *)
(*                                                                         *)
(* The model starts after initializeCart: cartId is set, the cart is       *)
(* empty and belongs to session 1.  Line item ids are well-formed          *)
(* ObjectId strings (positive numbers); the temporary ids of the client    *)
(* (Date.now()) are negative numbers and match no document.  A pending     *)
(* render and its effect run                                               *)
(* before the callback of an answered request; the server's last step on   *)
(* a client request and that callback are one step.                        *)
(***************************************************************************)
EXTENDS Integers, Sequences, FiniteSets, TLC

VARIABLES
    items,          \* server: the CartItem collection, a set of documents
    reqs,           \* HTTP requests in flight (server side position included)
    last,           \* the response of the request that completed last
    cartItems,      \* client: React state cartItems (array of item objects)
    freeProducts,   \* client: React state freeProducts (gift products with minOrderValue)
    dirty,          \* client: a state update is pending, CartProvider has not re-rendered yet
    failures,       \* history: the number of client requests that failed before the server handled them
    sent,           \* history: the number of requests sent (Spec), of user operations (SpecClient)
    carts,          \* server: the Cart collection, a set of documents
    products,       \* server: the ids of the documents of the Product collection
    orders,         \* server: the Order collection, a set of documents
    user            \* server: the document of the registered user (User collection)

vars == <<items, reqs, last, cartItems, freeProducts, dirty, failures, sent, carts, products,
          orders, user>>

(***************************************************************************)
(* Bounds of the model.                                                    *)
(***************************************************************************)
MaxIds == 3         \* line item ids the requests of Spec name
MaxPool == 6        \* line item ids (ObjectIds) that can be referred to at once
MaxTemp == 5        \* temporary ids (Date.now()) that can be referred to at once
MaxClientReqs == 2  \* requests in flight when the user starts another operation
MaxQty == 3         \* largest quantity a request may produce
MaxReqs == 2        \* API requests in flight at once (Spec)
MaxCarts == 2       \* carts addressed by API requests (Spec)
MaxSent == 3        \* API requests sent in one behaviour (Spec)
MaxUserOps == 2     \* user operations in one behaviour (SpecClient)
MaxUserQty == 2     \* largest quantity the user asks for (SpecClient)
MaxFailures == 1    \* requests that fail before the server handles them (SpecClient)
MaxInFlight == 2    \* requests in flight once the effect has run (SpecClient)
MaxCartDocs == 4    \* ids of cart documents: createCart hands out MaxCarts + 1 .. MaxCartDocs
MaxOwner == 2       \* user ids 0..1 and session ids 0..MaxOwner of GET /api/cart (0: not supplied)
MaxPageQty == 2     \* largest quantity chosen on the product page (SpecPage)
MaxPageAdds == 3    \* addItem calls the product page makes in one behaviour (SpecPage)
MaxOrders == 2      \* POST /api/orders requests in one behaviour (SpecOrders)
MaxTokens == 2      \* reset tokens signed in one behaviour (SpecAuth)

CartIds == 1..MaxCarts
ProductIds == {1, 2, 3}
ItemIds == 1..MaxIds
PoolIds == 1..MaxPool
TempIds == (0 - MaxTemp)..(-1)

\* The cart of the browser session (cartId of CartProvider).
ClientCartId == 1

\* Catalogue prices (Product.price) of the three products of the model.
Price(p) == CASE p = 1 -> 5 [] p = 2 -> 5 [] OTHER -> 2

\* FreeProductModel documents: rule id = product id, one rule per product.
FreeProductRules == { [id |-> 2, productId |-> 2, minOrderValue |-> 5],
                      [id |-> 3, productId |-> 3, minOrderValue |-> 10] }

\* What the requests of Spec name: a product without a rule and one with a rule,
\* an id that is no rule and the id of a rule.
ApiProductIds == {1, 2}
ApiRuleIds == {1, 2}

\* The products the user of SpecClient adds: one without a rule, one with a rule.
UserProductIds == {1, 2}

RECURSIVE SumQty(_)
SumQty(S) == IF S = {} THEN 0
             ELSE LET l == CHOOSE x \in S : TRUE IN l.quantity + SumQty(S \ {l})

(***************************************************************************)
(* Requests.  One record shape for every request; a field a request does   *)
(* not use keeps the value of NoReq.  gift: the addItem that sent the      *)
(* request was called by the reconciliation effect.                        *)
(***************************************************************************)
NoReq == [rid |-> 0, origin |-> "api", kind |-> "NONE", phase |-> "sent",
          userId |-> 0, sessionId |-> 0, cartId |-> 0, productId |-> 0, ruleId |-> 0, id |-> 0, quantity |-> 0,
          isFree |-> FALSE, found |-> 0, foundQty |-> 0,
          op |-> "none", prev |-> <<>>, tempId |-> 0, todo |-> <<>>,
          alone |-> FALSE, before |-> <<>>, gift |-> FALSE,
          paymentMethod |-> "", status |-> "", itemQuantity |-> 0,
          email |-> 0, token |-> 0, password |-> 0]

\* The last response: its status and body, for GET /api/cart the id of the cart
\* and its items (each with whether a product is joined to it), and the request
\* it answers.
NoResponse == [kind |-> "NONE", status |-> 0, body |-> "none", id |-> 0, lines |-> {},
               req |-> NoReq]

Response(kind, status, body, id) ==
    [NoResponse EXCEPT !.kind = kind, !.status = status, !.body = body]

ResOk(status) == status >= 200 /\ status <= 299

\* bcrypt.hash(password, 10): the stored hash of a password (passwords are 1, 2, ...).
BcryptHash(password) == 10 + password

\* The registered user's document before any reset is asked for: no reset
\* token (0 stands for undefined).  issued, used and replaced are history: the
\* number of reset tokens signed so far, the tokens a reset has succeeded with,
\* and the tokens a later forgot-password has overwritten.
NoUser == [password |-> BcryptHash(1), resetPasswordToken |-> 0,
           issued |-> 0, used |-> {}, replaced |-> {}]

LocalIds(arr) == { arr[i].id : i \in 1..Len(arr) }

\* Ids some part of the state still refers to: a new ObjectId is unique, which the
\* model keeps by never handing out an id that is still referred to.
UsedIds ==
    { l.id : l \in items }
      \cup { r.id : r \in reqs } \cup { r.found : r \in reqs } \cup { r.tempId : r \in reqs }
      \cup LocalIds(cartItems)
      \cup UNION { LocalIds(r.prev) : r \in reqs }
      \cup UNION { { r.todo[i] : i \in 1..Len(r.todo) } : r \in reqs }

HasFreshId == \E n \in PoolIds : n \notin UsedIds
FreshId == CHOOSE n \in PoolIds : n \notin UsedIds /\ \A m \in PoolIds : m < n => m \in UsedIds

\* The smallest positive number that is not in used.
Smallest(used) ==
    CHOOSE n \in 1..(Cardinality(used) + 1) :
        n \notin used /\ \A m \in 1..(Cardinality(used) + 1) : m < n => m \in used

FreshRidIn(rs) == Smallest({ r.rid : r \in rs })
FreshRid == FreshRidIn(reqs)

(***************************************************************************)
(* MongoDBStorage: cart item operations.                                   *)
(***************************************************************************)
\* CartItemModel.findOne({cartId, productId}): the documents the filter matches.
\* The filter does not name isFree.
AddCartItemMatches(its, c, p) == { l \in its : l.cartId = c /\ l.productId = p }

\* The unique index {cartId, productId, isFree} rejects an insert of a second
\* document with the same key.
DuplicateKey(its, c, p, f) ==
    \E l \in its : l.cartId = c /\ l.productId = p /\ l.isFree = f

\* addCartItem after its findOne: existingItem.quantity += quantity; save()
\* (found # 0), or new CartItemModel(...).save() (found = 0).  The result is
\* [items, ok, id]; ok = FALSE when save() rejects (validation min 1, the
\* document is gone, duplicate key).
AddCartItemSave(its, found, foundQty, c, p, q, f, newId) ==
    IF found # 0
    THEN IF (\E l \in its : l.id = found) /\ foundQty + q >= 1
         THEN [items |-> { IF l.id = found THEN [l EXCEPT !.quantity = foundQty + q] ELSE l
                           : l \in its },
               ok |-> TRUE, id |-> found]
         ELSE [items |-> its, ok |-> FALSE, id |-> 0]
    ELSE IF DuplicateKey(its, c, p, f) \/ q < 1
         THEN [items |-> its, ok |-> FALSE, id |-> 0]
         ELSE [items |-> its \cup { [id |-> newId, cartId |-> c, productId |-> p,
                                     quantity |-> q, isFree |-> f] },
               ok |-> TRUE, id |-> newId]

\* updateCartItemQuantity: findOneAndUpdate({_id}, {$set: {quantity}}, {new: true}).
UpdateCartItemQuantity(its, id, q) ==
    [items |-> { IF l.id = id THEN [l EXCEPT !.quantity = q] ELSE l : l \in its },
     updated |-> \E l \in its : l.id = id]

\* removeCartItem with a filter that matches every document: deleteOne removes
\* the first document of the collection.
RemoveCartItemAnyFilter(its, id) ==
    IF its = {} THEN [items |-> its, success |-> FALSE]
    ELSE LET first == CHOOSE l \in its : \A m \in its : l.id <= m.id
         IN [items |-> its \ {first}, success |-> TRUE]

\* removeCartItem: deleteOne({_id}); deletedCount > 0.
RemoveCartItem(its, id) ==
    [items |-> { l \in its : l.id # id },
     success |-> \E l \in its : l.id = id]

\* MongoDBStorage.getCart: the query names userId when it is given, else
\* sessionId; findOne returns the first document the query matches, which is the
\* one inserted first (cart documents are never deleted, and createCart's ids
\* grow); 0 stands for undefined.
GetCartAlwaysMiss(cs, u, s) == 0

GetCart(cs, u, s) ==
    LET ms == IF u # 0 THEN { c \in cs : c.userId = u }
              ELSE IF s # 0 THEN { c \in cs : c.sessionId = s }
              ELSE {}
    IN IF ms = {} THEN 0
       ELSE (CHOOSE c \in ms : \A d \in ms : c.id <= d.id).id

\* MongoDBStorage.createCart
CreateCart(cs, u, s, id) == cs \cup { [id |-> id, userId |-> u, sessionId |-> s] }

\* MongoDBStorage.getCartItems
GetCartItems(its, c) == { l \in its : l.cartId = c }

\* MongoDBStorage.deleteProduct
DeleteProduct(ps, p) == ps \ {p}

\* getCartById: findById on the Cart collection (the documents found).
GetCartById(c) == { x \in carts : x.id = c }

\* A variant of clearCart whose filter also names isFree: false.
ClearCartPaidOnly(its, c) == { l \in its : l.cartId # c \/ l.isFree }

\* clearCart: deleteMany({cartId}).
ClearCart(its, c) == { l \in its : l.cartId # c }

\* getProductById: findById on the Product collection.
GetProductById(p) == p \in products

\* getCartItemsWithProductDetails: the cart's items joined to their products;
\* an item whose product is not found is left out.
GetCartItemsWithProductDetails(its, c) ==
    { l \in its : l.cartId = c /\ GetProductById(l.productId) }

\* cartTotal of the free-product routes: non-free items only.
RECURSIVE CartTotalOf(_)
CartTotalOf(S) ==
    IF S = {} THEN 0
    ELSE LET l == CHOOSE x \in S : TRUE
         IN (IF l.isFree THEN 0 ELSE Price(l.productId) * l.quantity) + CartTotalOf(S \ {l})

CartTotal(its, c) == CartTotalOf(GetCartItemsWithProductDetails(its, c))

\* GET /api/cart/:cartId/eligible-free-products: the products of the rules
\* whose minOrderValue the cart total reaches, for the products that exist.
EligibleFreeProducts(its, c) ==
    { fp.productId : fp \in { x \in FreeProductRules :
                                 /\ CartTotal(its, c) >= x.minOrderValue
                                 /\ GetProductById(x.productId) } }

(***************************************************************************)
(* Routes: the response a handler sends, as [items, status, body, id].     *)
(***************************************************************************)
\* PUT /api/cart/items/:id
PutCartItem(its, id, q) ==
    LET u == UpdateCartItemQuantity(its, id, q)
    IN IF ~u.updated /\ q > 0
       THEN [items |-> u.items, status |-> 404, body |-> "message", id |-> 0]
       ELSE IF u.updated
            THEN [items |-> u.items, status |-> 200, body |-> "item", id |-> id]
            ELSE [items |-> u.items, status |-> 200, body |-> "deleted", id |-> id]

\* DELETE /api/cart/items/:id
DeleteCartItem(its, id) ==
    LET d == RemoveCartItem(its, id)
    IN [items |-> d.items, status |-> IF d.success THEN 204 ELSE 404,
        body |-> IF d.success THEN "none" ELSE "message", id |-> 0]

\* DELETE /api/cart/:id
DeleteCart(its, c) ==
    [items |-> ClearCart(its, c), status |-> 204, body |-> "none", id |-> 0]

\* A variant of the add-free-product checks without the look for an existing
\* free item of the product.
AddFreeProductCheckNoExisting(its, c, p, ruleId) ==
    IF ~(\E fp \in FreeProductRules : fp.id = ruleId) THEN 404
    ELSE LET fp == CHOOSE x \in FreeProductRules : x.id = ruleId
         IN IF fp.productId # p THEN 400
            ELSE IF GetCartById(c) = {} THEN 404
            ELSE IF CartTotal(its, c) < fp.minOrderValue THEN 400
            ELSE 0

\* POST /api/cart/:cartId/add-free-product, up to the call of addCartItem:
\* the status of the rejection, or 0 when the request goes on.
AddFreeProductCheck(its, c, p, ruleId) ==
    IF ~(\E fp \in FreeProductRules : fp.id = ruleId) THEN 404
    ELSE LET fp == CHOOSE x \in FreeProductRules : x.id = ruleId
         IN IF fp.productId # p THEN 400
            ELSE IF GetCartById(c) = {} THEN 404
            ELSE IF CartTotal(its, c) < fp.minOrderValue THEN 400
            ELSE IF \E l \in GetCartItemsWithProductDetails(its, c) :
                        l.isFree /\ l.productId = p THEN 400
            ELSE 0

(***************************************************************************)
(* CartProvider.  cartItems is an array of item objects; oid is the        *)
(* identity of the JavaScript object, so that an array copied with         *)
(* [...cartItems] shares its objects with the original: a write to an      *)
(* object shows in every array that holds it.                              *)
(***************************************************************************)
Item(oid, id, pid, free, qty) ==
    [oid |-> oid, id |-> id, pid |-> pid, free |-> free, qty |-> qty]

Oids(arr) == { arr[i].oid : i \in 1..Len(arr) }
AllOids(cart, rs) == Oids(cart) \cup UNION { Oids(r.prev) : r \in rs }

\* The content of an array, the identity of its objects left out.
Strip(arr) == [i \in 1..Len(arr) |-> [arr[i] EXCEPT !.oid = 0]]

\* subtotal: price * quantity summed over every item of cartItems.
RECURSIVE Subtotal(_)
Subtotal(arr) ==
    IF arr = <<>> THEN 0
    ELSE Price(Head(arr).pid) * Head(arr).qty + Subtotal(Tail(arr))

\* totalItems: quantity summed over every item of cartItems.
RECURSIVE TotalItems(_)
TotalItems(arr) ==
    IF arr = <<>> THEN 0 ELSE Head(arr).qty + TotalItems(Tail(arr))

\* isEmpty
IsEmpty(arr) == Len(arr) = 0

\* loadFreeProducts: the rules joined to their products, isFreeProduct: true.
LoadedFreeProducts ==
    LET Has(p) == \E fp \in FreeProductRules : fp.productId = p
        Rule(p) == CHOOSE fp \in FreeProductRules : fp.productId = p
        RECURSIVE Build(_)
        Build(p) == IF p \notin ProductIds THEN <<>>
                    ELSE (IF Has(p) THEN << [pid |-> p, minOrderValue |-> Rule(p).minOrderValue] >>
                          ELSE <<>>) \o Build(p + 1)
    IN Build(1)

\* updatedItems[existingItemIndex].quantity += 1, seen through every array.
Bump(arr, o) ==
    [i \in 1..Len(arr) |-> IF arr[i].oid = o THEN [arr[i] EXCEPT !.qty = @ + 1] ELSE arr[i]]
BumpReqs(rs, o) == { [r EXCEPT !.prev = Bump(@, o)] : r \in rs }

Without(arr, id) == LET Keep(x) == x.id # id IN SelectSeq(arr, Keep)

\* A request joins the requests in flight (alone: no other request is or was in
\* flight with it).
AddReq(rs, r) ==
    { [x EXCEPT !.alone = FALSE] : x \in rs }
      \cup { [r EXCEPT !.rid = FreshRidIn(rs), !.origin = "client", !.alone = (rs = {})] }

ClientUsedIds(cart, clo, rs) ==
    LocalIds(cart) \cup LocalIds(clo)
      \cup { r.id : r \in rs } \cup { r.tempId : r \in rs }
      \cup UNION { LocalIds(r.prev) : r \in rs }
      \cup UNION { { r.todo[i] : i \in 1..Len(r.todo) } : r \in rs }

\* Date.now() as an id: a number no live item or request carries.
FreshTemp(cart, clo, rs) ==
    LET used == ClientUsedIds(cart, clo, rs)
    IN CHOOSE n \in TempIds : n \notin used /\ \A m \in TempIds : m > n => m \in used

\* There are temporary ids left for n new items.
TempRoom(n) == Cardinality(TempIds \ ClientUsedIds(cartItems, cartItems, reqs)) >= n

(***************************************************************************)
(* The operations of CartProvider up to their first await, on              *)
(*   st = [cart  : the value the last setCartItems call was given,         *)
(*         clo   : cartItems of the render whose closure is running,       *)
(*         reqs  : the requests in flight,                                 *)
(*         set   : setCartItems was called,                                *)
(*         lastTemp : the id of the temporary item made last]              *)
(* Several calls made by one render's closures share clo.                  *)
(***************************************************************************)
\* addItem(product); sameMs: Date.now() has not advanced since the last call.
CallAddItem(st, p, free, sameMs) ==
    LET c == st.clo
        idxs == { i \in 1..Len(c) : c[i].pid = p }
    IN IF idxs # {}
       THEN LET i == CHOOSE x \in idxs : \A y \in idxs : x <= y
                o == c[i].oid
                c2 == Bump(c, o)
                r == [NoReq EXCEPT !.kind = "PUT", !.id = c[i].id, !.quantity = c2[i].qty,
                                   !.op = "addInc", !.prev = c2, !.before = Strip(c),
                                   !.gift = free]
            IN [st EXCEPT !.cart = c2, !.clo = c2, !.set = TRUE,
                          !.reqs = AddReq(BumpReqs(st.reqs, o), r)]
       ELSE LET tid == IF sameMs /\ st.lastTemp # 0 THEN st.lastTemp
                       ELSE FreshTemp(st.cart, c, st.reqs)
                o == Smallest(Oids(c) \cup AllOids(st.cart, st.reqs))
                r == [NoReq EXCEPT !.kind = "POST", !.cartId = ClientCartId, !.productId = p,
                                   !.quantity = 1, !.tempId = tid,
                                   !.op = "addNew", !.prev = c, !.before = Strip(c),
                                   !.gift = free]
            IN [st EXCEPT !.cart = Append(c, Item(o, tid, p, free, 1)), !.set = TRUE,
                          !.lastTemp = tid, !.reqs = AddReq(st.reqs, r)]

\* removeItem(itemId)
CallRemoveItem(st, id) ==
    LET c == st.clo
        r == [NoReq EXCEPT !.kind = "DELETE", !.id = id,
                           !.op = "remove", !.prev = c, !.before = Strip(c)]
    IN [st EXCEPT !.cart = Without(c, id), !.set = TRUE, !.reqs = AddReq(st.reqs, r)]

\* updateQuantity that sends the quantity as it is, whatever its sign.
CallUpdateQuantityNoDelegate(st, id, q) ==
    LET c == st.clo
        o == Smallest(Oids(c) \cup AllOids(st.cart, st.reqs))
        r == [NoReq EXCEPT !.kind = "PUT", !.id = id, !.quantity = q,
                           !.op = "update", !.prev = c, !.before = Strip(c)]
    IN [st EXCEPT !.cart = [i \in 1..Len(c) |->
                               IF c[i].id = id THEN [c[i] EXCEPT !.qty = q, !.oid = o]
                               ELSE c[i]],
                  !.set = TRUE, !.reqs = AddReq(st.reqs, r)]

\* updateQuantity(itemId, quantity)
CallUpdateQuantity(st, id, q) ==
    IF q <= 0 THEN CallRemoveItem(st, id)
    ELSE LET c == st.clo
             o == Smallest(Oids(c) \cup AllOids(st.cart, st.reqs))
             r == [NoReq EXCEPT !.kind = "PUT", !.id = id, !.quantity = q,
                                !.op = "update", !.prev = c, !.before = Strip(c)]
         IN [st EXCEPT !.cart = [i \in 1..Len(c) |->
                                    IF c[i].id = id THEN [c[i] EXCEPT !.qty = q, !.oid = o]
                                    ELSE c[i]],
                       !.set = TRUE, !.reqs = AddReq(st.reqs, r)]

\* clearCart() from its closure c, with the free item ids it has still to remove:
\* the next removeItem, or setCartItems([]) and the DELETE of the cart.
ClearCartStep(c, todo, before, rs) ==
    IF todo # <<>>
    THEN [cart |-> Without(c, Head(todo)),
          reqs |-> AddReq(rs, [NoReq EXCEPT !.kind = "DELETE", !.id = Head(todo),
                                            !.op = "clearRemove", !.prev = c,
                                            !.todo = Tail(todo), !.before = before]),
          set |-> TRUE]
    ELSE [cart |-> <<>>,
          reqs |-> AddReq(rs, [NoReq EXCEPT !.kind = "CLEAR", !.cartId = ClientCartId,
                                            !.op = "clear", !.prev = c, !.before = before]),
          set |-> TRUE]

FreeItemIds(c) ==
    LET IsFree(x) == x.free
        fs == SelectSeq(c, IsFree)
    IN [i \in 1..Len(fs) |-> fs[i].id]

\* setCartItems(prev => prev.map(item => item.id === tempItem.id ? {...item, id} : item))
RECURSIVE ReplaceTemp(_, _, _, _)
ReplaceTemp(arr, tempId, newId, used) ==
    IF arr = <<>> THEN <<>>
    ELSE IF Head(arr).id = tempId
         THEN LET o == Smallest(used)
              IN << [Head(arr) EXCEPT !.id = newId, !.oid = o] >>
                   \o ReplaceTemp(Tail(arr), tempId, newId, used \cup {o})
         ELSE << Head(arr) >> \o ReplaceTemp(Tail(arr), tempId, newId, used)

\* What runs in CartProvider when the request r is answered (ok: apiRequest did
\* not throw), on the state cart with the other requests rest.
Continue(r, ok, newId, cart, rest) ==
    IF r.op = "addNew"
    THEN IF ok
         THEN [cart |-> ReplaceTemp(cart, r.tempId, newId, AllOids(cart, rest)),
               reqs |-> rest, set |-> TRUE]
         ELSE [cart |-> r.prev, reqs |-> rest, set |-> TRUE]
    ELSE IF r.op = "clearRemove"
    THEN ClearCartStep(r.prev, r.todo, r.before, rest)
    ELSE IF ok
         THEN [cart |-> cart, reqs |-> rest, set |-> FALSE]
         ELSE [cart |-> r.prev, reqs |-> rest, set |-> TRUE]

(***************************************************************************)
(* The reconciliation effect of a render with cartItems = c.               *)
(***************************************************************************)
Eligible(c, fps) ==
    LET Ok(fp) == fp.minOrderValue <= Subtotal(c) IN SelectSeq(fps, Ok)

EffectCalls(c, fps) ==
    LET el == Eligible(c, fps)
        elPids == { el[i].pid : i \in 1..Len(el) }
        IsFree(x) == x.free
        NotInCart(fp) == ~(\E i \in 1..Len(c) : c[i].pid = fp.pid)
        Stale(x) == x.free /\ x.pid \notin elPids
        adds == SelectSeq(el, NotInCart)
        free == SelectSeq(c, IsFree)
        stale == SelectSeq(c, Stale)
    IN IF \A i \in 1..Len(c) : c[i].free
       THEN [i \in 1..Len(free) |-> [op |-> "remove", pid |-> 0, id |-> free[i].id]]
       ELSE [i \in 1..Len(adds) |-> [op |-> "add", pid |-> adds[i].pid, id |-> 0]]
              \o [i \in 1..Len(stale) |-> [op |-> "remove", pid |-> 0, id |-> stale[i].id]]

RECURSIVE RunCalls(_, _, _)
RunCalls(st, calls, sameMs) ==
    IF calls = <<>> THEN st
    ELSE LET k == Head(calls)
         IN RunCalls(IF k.op = "add" THEN CallAddItem(st, k.pid, TRUE, sameMs)
                     ELSE CallRemoveItem(st, k.id),
                     Tail(calls), sameMs)

Closure(c, rs) == [cart |-> c, clo |-> c, reqs |-> rs, set |-> FALSE, lastTemp |-> 0]

(***************************************************************************)
(* Server steps.  A request is handled in one step, except where the       *)
(* handler reads the collection, awaits, and then writes what it read:     *)
(* addCartItem (findOne, then save) and the checks of add-free-product.    *)
(***************************************************************************)
\* The effect of the pending render can run.
RenderReady ==
    /\ dirty
    /\ TempRoom(Len(EffectCalls(cartItems, freeProducts)))
    /\ Cardinality(reqs) + Len(EffectCalls(cartItems, freeProducts)) <= MaxInFlight

\* The handler of r sends its response: the request leaves the server.  A
\* pending render runs before the callbacks of the client's requests.
Respond(r, res) ==
    /\ items' = res.items
    /\ IF r.origin = "api"
       THEN /\ reqs' = reqs \ {r}
            /\ last' = Response(r.kind, res.status, res.body, res.id)
            /\ UNCHANGED <<cartItems, dirty, failures>>
       ELSE LET k == Continue(r, ResOk(res.status), res.id, cartItems, reqs \ {r})
            IN /\ ~RenderReady
               /\ reqs' = k.reqs
               /\ cartItems' = k.cart
               /\ dirty' = (dirty \/ k.set)
               /\ failures' = IF res.status = 0 THEN failures + 1 ELSE failures
               /\ UNCHANGED last
    /\ UNCHANGED <<freeProducts, sent, carts, products, orders, user>>

Unchanged(its, status) == [items |-> its, status |-> status, body |-> "message", id |-> 0]

Advance(r, r2) ==
    /\ reqs' = (reqs \ {r}) \cup {r2}
    /\ UNCHANGED <<items, last, cartItems, freeProducts, dirty, failures, sent, carts, products, orders, user>>

\* POST /api/cart/items up to addCartItem's findOne: 400 on a missing or
\* non-positive quantity, else the document the filter finds (any one of them).
PostFind(r) ==
    /\ r.kind = "POST" /\ r.phase = "sent"
    /\ IF r.quantity < 1
       THEN Respond(r, Unchanged(items, 400))
       ELSE LET ms == AddCartItemMatches(items, r.cartId, r.productId)
            IN IF ms = {}
               THEN Advance(r, [r EXCEPT !.phase = "found", !.found = 0, !.foundQty = 0])
               ELSE \E m \in ms :
                      /\ m.quantity + r.quantity <= MaxQty
                      /\ Advance(r, [r EXCEPT !.phase = "found", !.found = m.id,
                                                !.foundQty = m.quantity])

\* POST /api/cart/:cartId/add-free-product up to the call of addCartItem.
AddFreeCheck(r) ==
    /\ r.kind = "ADDFREE" /\ r.phase = "sent"
    /\ LET st == AddFreeProductCheck(items, r.cartId, r.productId, r.ruleId)
       IN IF st # 0
          THEN Respond(r, Unchanged(items, st))
          ELSE Advance(r, [r EXCEPT !.phase = "checked"])

\* add-free-product: addCartItem's findOne.
AddFreeFind(r) ==
    /\ r.kind = "ADDFREE" /\ r.phase = "checked"
    /\ LET ms == AddCartItemMatches(items, r.cartId, r.productId)
       IN IF ms = {}
          THEN Advance(r, [r EXCEPT !.phase = "found", !.found = 0, !.foundQty = 0])
          ELSE \E m \in ms :
                 /\ m.quantity + r.quantity <= MaxQty
                 /\ Advance(r, [r EXCEPT !.phase = "found", !.found = m.id,
                                           !.foundQty = m.quantity])

\* addCartItem's save and the 201 (or, save() rejecting, the 500) of either route.
AddSave(r) ==
    /\ r.kind \in {"POST", "ADDFREE"} /\ r.phase = "found"
    /\ r.found # 0 \/ HasFreshId
    /\ LET a == AddCartItemSave(items, r.found, r.foundQty, r.cartId, r.productId,
                                r.quantity, r.isFree, IF r.found # 0 THEN 0 ELSE FreshId)
       IN Respond(r, [items |-> a.items, status |-> IF a.ok THEN 201 ELSE 500,
                      body |-> IF a.ok THEN "item" ELSE "message", id |-> a.id])

PutItem(r) ==
    /\ r.kind = "PUT" /\ r.phase = "sent"
    /\ Respond(r, PutCartItem(items, r.id, r.quantity))

DeleteItem(r) ==
    /\ r.kind = "DELETE" /\ r.phase = "sent"
    /\ Respond(r, DeleteCartItem(items, r.id))

ClearItems(r) ==
    /\ r.kind = "CLEAR" /\ r.phase = "sent"
    /\ Respond(r, DeleteCart(items, r.cartId))

Server ==
    \E r \in reqs :
        \/ PostFind(r)
        \/ AddFreeCheck(r)
        \/ AddFreeFind(r)
        \/ AddSave(r)
        \/ PutItem(r)
        \/ DeleteItem(r)
        \/ ClearItems(r)

(***************************************************************************)
(* Spec: requests of arbitrary API clients.                                *)
(***************************************************************************)
Send(r) ==
    /\ Cardinality(reqs) < MaxReqs
    /\ sent < MaxSent
    /\ sent' = sent + 1
    /\ reqs' = reqs \cup {[r EXCEPT !.rid = FreshRid]}
    /\ UNCHANGED <<items, last, cartItems, freeProducts, dirty, failures, carts, products, orders, user>>

\* POST /api/cart/items {cartId, productId, quantity}: the route stores isFree: false.
ApiPostItem ==
    \E c \in CartIds, p \in ApiProductIds, q \in 0..2 :
        Send([NoReq EXCEPT !.kind = "POST", !.cartId = c, !.productId = p,
                           !.quantity = q, !.isFree = FALSE])

\* PUT /api/cart/items/:id {quantity}
ApiPutItem ==
    \E id \in ItemIds, q \in (-1)..MaxQty :
        Send([NoReq EXCEPT !.kind = "PUT", !.id = id, !.quantity = q])

\* DELETE /api/cart/items/:id
ApiDeleteItem ==
    \E id \in ItemIds : Send([NoReq EXCEPT !.kind = "DELETE", !.id = id])

\* DELETE /api/cart/:id
ApiClearCart ==
    \E c \in CartIds : Send([NoReq EXCEPT !.kind = "CLEAR", !.cartId = c])

\* POST /api/cart/:cartId/add-free-product {productId, freeProductId}:
\* quantity 1, isFree: true.
ApiAddFreeProduct ==
    \E c \in CartIds, p \in ApiProductIds, f \in ApiRuleIds :
        Send([NoReq EXCEPT !.kind = "ADDFREE", !.cartId = c, !.productId = p,
                           !.ruleId = f, !.quantity = 1, !.isFree = TRUE])

Init ==
    /\ items = {}
    /\ reqs = {}
    /\ last = NoResponse
    /\ cartItems = <<>>
    /\ freeProducts = <<>>
    /\ dirty = FALSE
    /\ failures = 0
    /\ sent = 0
    /\ carts = { [id |-> ClientCartId, userId |-> 0, sessionId |-> 1] }
    /\ products = ProductIds
    /\ orders = {}
    /\ user = NoUser

Next ==
    \/ ApiPostItem
    \/ ApiPutItem
    \/ ApiDeleteItem
    \/ ApiClearCart
    \/ ApiAddFreeProduct
    \/ Server

Spec == Init /\ [][Next]_vars

(***************************************************************************)
(* SpecAdd: API clients that only add line items (POST /api/cart/items).   *)
(***************************************************************************)
ServerAdd ==
    \E r \in reqs :
        \/ PostFind(r)
        \/ AddSave(r)

NextAdd ==
    \/ ApiPostItem
    \/ ServerAdd

SpecAdd == Init /\ [][NextAdd]_vars

(***************************************************************************)
(* SpecCart: API clients that read carts (GET /api/cart), add line items   *)
(* and delete products (DELETE /api/products/:id).  The ids CartIds that   *)
(* requests name are the cart of Init and an id that is no cart; the       *)
(* ObjectIds createCart makes follow them.                                  *)
(***************************************************************************)
CartDocIds == 1..MaxCartDocs
CartIdsOf(cs) == { c.id : c \in cs }
HasFreshCartId == \E n \in CartDocIds : n > MaxCarts /\ n \notin CartIdsOf(carts)
FreshCartId ==
    CHOOSE n \in CartDocIds :
        /\ n > MaxCarts /\ n \notin CartIdsOf(carts)
        /\ \A m \in CartDocIds : (m > MaxCarts /\ m < n) => m \in CartIdsOf(carts)

\* The response of a handler that writes no line item.
RespondCart(r, res, cs, ps) ==
    /\ reqs' = reqs \ {r}
    /\ last' = [NoResponse EXCEPT !.kind = r.kind, !.status = res.status, !.body = res.body,
                                  !.id = res.id, !.lines = res.lines,
                                  !.req = [r EXCEPT !.rid = 0]]
    /\ carts' = cs
    /\ products' = ps
    /\ UNCHANGED <<items, cartItems, freeProducts, dirty, failures, sent, orders, user>>

\* GET /api/cart up to getCart's findOne: 400 without userId and sessionId.
GetCartFind(r) ==
    /\ r.kind = "GETCART" /\ r.phase = "sent"
    /\ IF r.userId = 0 /\ r.sessionId = 0
       THEN RespondCart(r, [status |-> 400, body |-> "message", id |-> 0, lines |-> {}],
                        carts, products)
       ELSE Advance(r, [r EXCEPT !.phase = "found",
                                 !.cartId = GetCart(carts, r.userId, r.sessionId)])

\* GET /api/cart from `if (!cart)`: createCart on a miss, then the items of the
\* cart, each with the product getProductById returns for it, and the 200.
GetCartFinish(r) ==
    /\ r.kind = "GETCART" /\ r.phase = "found"
    /\ r.cartId # 0 \/ HasFreshCartId
    /\ LET id == IF r.cartId # 0 THEN r.cartId ELSE FreshCartId
           cs == IF r.cartId # 0 THEN carts
                 ELSE CreateCart(carts, r.userId, r.sessionId, id)
           lines == { [id |-> l.id, product |-> GetProductById(l.productId)]
                        : l \in GetCartItems(items, id) }
       IN RespondCart(r, [status |-> 200, body |-> "cart", id |-> id, lines |-> lines],
                      cs, products)

\* DELETE /api/products/:id
DeleteProductById(r) ==
    /\ r.kind = "DELPRODUCT" /\ r.phase = "sent"
    /\ IF ~GetProductById(r.productId)
       THEN RespondCart(r, [status |-> 404, body |-> "error", id |-> 0, lines |-> {}],
                        carts, products)
       ELSE RespondCart(r, [status |-> 200, body |-> "message", id |-> 0, lines |-> {}],
                        carts, DeleteProduct(products, r.productId))

ServerCart ==
    \E r \in reqs :
        \/ GetCartFind(r)
        \/ GetCartFinish(r)
        \/ DeleteProductById(r)
        \/ PostFind(r)
        \/ AddSave(r)

\* GET /api/cart?userId=&sessionId= (0: the parameter is not supplied).  alone:
\* no other GET /api/cart is or was in flight with this one.
ApiGetCart ==
    \E u \in 0..1, s \in 0..MaxOwner :
        LET gets == { x \in reqs : x.kind = "GETCART" }
        IN /\ Cardinality(reqs) < MaxReqs
           /\ sent < MaxSent
           /\ sent' = sent + 1
           /\ reqs' = { IF x \in gets THEN [x EXCEPT !.alone = FALSE] ELSE x : x \in reqs }
                        \cup { [NoReq EXCEPT !.rid = FreshRid, !.kind = "GETCART",
                                             !.userId = u, !.sessionId = s,
                                             !.alone = (gets = {})] }
           /\ UNCHANGED <<items, last, cartItems, freeProducts, dirty, failures, carts, products, orders, user>>

\* DELETE /api/products/:id
ApiDeleteProduct ==
    \E p \in ApiProductIds : Send([NoReq EXCEPT !.kind = "DELPRODUCT", !.productId = p])

NextCart ==
    \/ ApiGetCart
    \/ ApiDeleteProduct
    \/ ApiPostItem
    \/ ServerCart

SpecCart == Init /\ [][NextCart]_vars

(***************************************************************************)
(* Properties of the cart storage and its routes, checked under Spec.      *)
(***************************************************************************)
\* C5: accumulation invariant.  Whenever addCartItem completes (the route answers
\* 201) for the tuple (cartId, productId, isFree) with quantity q, sequentially
\* or while another add of the same tuple is in progress, the collection then
\* holds exactly one line item for that tuple, its quantity is the tuple's
\* quantity before the save plus q, and no two line items share a tuple.
\* Checked under SpecAdd, where addCartItem is the only operation.
C5_AccumulationInvariant ==
    [][\A r \in reqs :
         (r.kind \in {"POST", "ADDFREE"} /\ r.phase = "found" /\ r \notin reqs'
            /\ last'.status = 201)
         => LET Same(l) == l.cartId = r.cartId /\ l.productId = r.productId
                             /\ l.isFree = r.isFree
                before == { l \in items : Same(l) }
                after == { l \in items' : Same(l) }
            IN /\ Cardinality(after) = 1
               /\ SumQty(after) = SumQty(before) + r.quantity
               /\ \A l, m \in items' :
                    (l.cartId = m.cartId /\ l.productId = m.productId
                       /\ l.isFree = m.isFree) => l = m]_vars

\* C6: addCartItem merges only into the line item whose cartId, productId and
\* isFree all match.  A completed add leaves every line item of another tuple
\* as it was (a free add never changes a paid line, a paid add never changes
\* a free line) and the line item of its own tuple exists afterwards.
C6_MergeOnlyOnFullMatch ==
    [][\A r \in reqs :
         (r.kind \in {"POST", "ADDFREE"} /\ r.phase = "found" /\ r \notin reqs'
            /\ last'.status = 201)
         => LET Same(l) == l.cartId = r.cartId /\ l.productId = r.productId
                             /\ l.isFree = r.isFree
            IN /\ \A l \in items : ~Same(l) => l \in items'
               /\ \E l \in items' : Same(l)]_vars

\* C7: delete-on-zero.  PUT /api/cart/items/:id with a quantity <= 0 on an
\* existing line item removes the line item from the collection and answers
\* with the deletion marker.
C7_DeleteOnZero ==
    [][\A r \in reqs :
         (r.kind = "PUT" /\ r \notin reqs' /\ r.quantity <= 0
            /\ \E l \in items : l.id = r.id)
         => /\ ~(\E l \in items' : l.id = r.id)
            /\ last'.body = "deleted"]_vars

\* C8: every stored line item has an integer quantity >= 1.
C8_QuantityAtLeastOne ==
    \A l \in items : l.quantity \in Int /\ l.quantity >= 1

Commit(st) ==
    /\ cartItems' = st.cart
    /\ reqs' = st.reqs
    /\ dirty' = (dirty \/ st.set)
    /\ sent' = sent + 1
    /\ UNCHANGED <<items, last, freeProducts, failures, carts, products, orders, user>>

\* loadFreeProducts() settles: setFreeProducts.
LoadFreeProducts ==
    /\ freeProducts = <<>>
    /\ freeProducts' = LoadedFreeProducts
    /\ dirty' = TRUE
    /\ UNCHANGED <<items, reqs, last, cartItems, failures, sent, carts, products, orders, user>>

\* CartProvider renders the pending state and its effect runs.
Render ==
    /\ RenderReady
    /\ \E sameMs \in BOOLEAN :
         LET st == RunCalls(Closure(cartItems, reqs), EffectCalls(cartItems, freeProducts),
                            sameMs)
         IN /\ cartItems' = st.cart
            /\ reqs' = st.reqs
            /\ dirty' = st.set
    /\ UNCHANGED <<items, last, freeProducts, failures, sent, carts, products, orders, user>>

\* The user's handlers belong to the last render: they run on its cartItems.
UserReady == ~dirty /\ Cardinality(reqs) < MaxClientReqs /\ TempRoom(1) /\ sent < MaxUserOps

\* Add to cart (a catalogue product: no isFreeProduct flag).
UserAddItem ==
    /\ UserReady
    /\ \E p \in UserProductIds :
         /\ \A i \in 1..Len(cartItems) : cartItems[i].pid = p => cartItems[i].qty < MaxUserQty
         /\ Commit(CallAddItem(Closure(cartItems, reqs), p, FALSE, FALSE))

UserRemoveItem ==
    /\ UserReady
    /\ \E id \in LocalIds(cartItems) :
         Commit(CallRemoveItem(Closure(cartItems, reqs), id))

UserUpdateQuantity ==
    /\ UserReady
    /\ \E id \in LocalIds(cartItems), q \in 0..MaxUserQty :
         Commit(CallUpdateQuantity(Closure(cartItems, reqs), id, q))

UserClearCart ==
    /\ UserReady
    /\ cartItems # <<>>
    /\ LET k == ClearCartStep(cartItems, FreeItemIds(cartItems), Strip(cartItems), reqs)
       IN /\ cartItems' = k.cart
          /\ reqs' = k.reqs
          /\ dirty' = TRUE
    /\ sent' = sent + 1
    /\ UNCHANGED <<items, last, freeProducts, failures, carts, products, orders, user>>

\* fetch rejects, or the server fails before it touches the collection.
FailRequest ==
    \E r \in reqs :
        /\ r.origin = "client" /\ r.phase = "sent"
        /\ failures < MaxFailures
        /\ Respond(r, [items |-> items, status |-> 0, body |-> "failed", id |-> 0])

\* The routes CartProvider calls.
ServerClient ==
    \E r \in reqs :
        \/ PostFind(r)
        \/ AddSave(r)
        \/ PutItem(r)
        \/ DeleteItem(r)
        \/ ClearItems(r)

NextClient ==
    \/ LoadFreeProducts
    \/ Render
    \/ UserAddItem
    \/ UserRemoveItem
    \/ UserUpdateQuantity
    \/ UserClearCart
    \/ FailRequest
    \/ ServerClient

SpecClient == Init /\ [][NextClient]_vars

\* FairSpecClient: CartProvider on a network that loses nothing.  A pending
\* render runs and the server answers every request.
NextReliable ==
    \/ LoadFreeProducts
    \/ Render
    \/ UserAddItem
    \/ UserRemoveItem
    \/ UserUpdateQuantity
    \/ UserClearCart
    \/ ServerClient

FairSpecClient ==
    Init /\ [][NextReliable]_vars /\ WF_vars(Render) /\ WF_vars(ServerClient)

\* FairSpecHeal: CartProvider on a network that loses only requests of the
\* reconciliation effect's addItem (at most MaxFailures of them).
FailGiftAdd ==
    \E r \in reqs :
        /\ r.origin = "client" /\ r.phase = "sent" /\ r.gift
        /\ failures < MaxFailures
        /\ Respond(r, [items |-> items, status |-> 0, body |-> "failed", id |-> 0])

NextHeal ==
    \/ LoadFreeProducts
    \/ Render
    \/ UserAddItem
    \/ UserRemoveItem
    \/ UserUpdateQuantity
    \/ UserClearCart
    \/ FailGiftAdd
    \/ ServerClient

FairSpecHeal ==
    Init /\ [][NextHeal]_vars /\ WF_vars(Render) /\ WF_vars(ServerClient)

\* One operation of CartProvider taken to its end from the state st it left:
\* the request it issued is handled by the server (ok) or fails before the
\* server handles it, and the operation's callback runs.
EndOf(st, ok) ==
    LET r == CHOOSE x \in st.reqs : x.rid = FreshRid
        res == IF ~ok THEN [items |-> items, status |-> 0, body |-> "failed", id |-> 0]
               ELSE IF r.kind = "DELETE" THEN DeleteCartItem(items, r.id)
               ELSE PutCartItem(items, r.id, r.quantity)
        k == Continue(r, ResOk(res.status), res.id, st.cart, st.reqs \ {r})
    IN [cart |-> Strip(k.cart), items |-> res.items]

\* Nothing is pending in the client: the rules are loaded, the last render's
\* effect has run and every request has been answered.
Quiescent == freeProducts # <<>> /\ ~dirty /\ reqs = {}

(***************************************************************************)
(* Properties of CartProvider, checked under SpecClient.                   *)
(***************************************************************************)
\* C1: reconciliation convergence.  Once the reconciliation effect has run and
\* every request has completed, the products present in the local cart as free
\* lines are exactly the products of the rules whose minOrderValue is <= S,
\* the sum of price x quantity over the non-free lines only.  (Stated for the
\* carts in which no rule's product is a paid line.)
C1_ReconciliationConvergence ==
    (Quiescent /\ \A i \in 1..Len(cartItems) :
                     ~cartItems[i].free =>
                        ~(\E fp \in FreeProductRules : fp.productId = cartItems[i].pid))
    => LET IsPaid(x) == ~x.free
           S == Subtotal(SelectSeq(cartItems, IsPaid))
       IN { cartItems[i].pid : i \in { j \in 1..Len(cartItems) : cartItems[j].free } }
            = { fp.productId : fp \in { x \in FreeProductRules : x.minOrderValue <= S } }

\* C2: empty-cart gift removal.  If from some point on the local cart holds no
\* paid line, then from some point on it holds no free line either: the free
\* lines are removed and stay removed.
C2_EmptyCartGiftRemoval ==
    <>[](\A i \in 1..Len(cartItems) : cartItems[i].free) => <>[](cartItems = <<>>)

\* C3: rollback correctness.  When the request of an addItem (either path), a
\* removeItem or an updateQuantity that ran alone fails, the local cart after
\* the rollback equals the cart before the optimistic change, line for line,
\* quantities included.
C3_RollbackCorrectness ==
    [][\A r \in reqs :
         (r.op \in {"addInc", "addNew", "remove", "update"} /\ r.alone
            /\ r \notin reqs' /\ failures' = failures + 1)
         => Strip(cartItems') = r.before]_vars

\* C4: in a behaviour in which some request failed, once every request has
\* completed the local cart holds the same lines (id, product, quantity) as
\* the server cart.
C4_LocalEqualsServer ==
    (failures > 0 /\ ~dirty /\ reqs = {})
    => /\ { [id |-> cartItems[i].id, productId |-> cartItems[i].pid,
             quantity |-> cartItems[i].qty] : i \in 1..Len(cartItems) }
            = { [id |-> l.id, productId |-> l.productId, quantity |-> l.quantity]
                : l \in { x \in items : x.cartId = ClientCartId } }
       /\ Len(cartItems) = Cardinality({ x \in items : x.cartId = ClientCartId })

\* C9: quantity-zero delete equivalence.  In every state of the client and for
\* every line id of the local cart, updateQuantity(id, q) with q <= 0 leaves
\* the same local cart and the same request as removeItem(id), and ends in the
\* same local cart and the same server cart, when the request succeeds and
\* when it fails.
C9_ZeroQuantityIsRemove ==
    \A id \in LocalIds(cartItems), q \in (0 - MaxUserQty)..0 :
        LET st == Closure(cartItems, reqs)
        IN /\ CallUpdateQuantity(st, id, q) = CallRemoveItem(st, id)
           /\ \A ok \in BOOLEAN :
                EndOf(CallUpdateQuantity(st, id, q), ok) = EndOf(CallRemoveItem(st, id), ok)

\* C9: a removal issued through updateQuantity or removeItem is in flight, alone,
\* for a line the server stores, and the local cart still holds other lines.
C9_Witness ==
    /\ cartItems # <<>>
    /\ \E r \in reqs :
         /\ r.op = "remove" /\ r.alone
         /\ r.id \in LocalIds(r.prev) /\ r.id \notin LocalIds(cartItems)
         /\ \E l \in items : l.id = r.id

\* C11: the derived subtotal is the sum of price x quantity over the non-free
\* lines of the local cart only (a gift line contributes nothing), totalItems
\* is the sum of all line quantities, and isEmpty holds exactly when the cart
\* has no lines.
C11_DerivedValues ==
    LET IsPaid(x) == ~x.free
        paid == SelectSeq(cartItems, IsPaid)
        RECURSIVE Sum(_, _)
        Sum(arr, priced) ==
            IF arr = <<>> THEN 0
            ELSE (IF priced THEN Price(Head(arr).pid) ELSE 1) * Head(arr).qty
                   + Sum(Tail(arr), priced)
    IN /\ Subtotal(cartItems) = Sum(paid, TRUE)
       /\ TotalItems(cartItems) = Sum(cartItems, FALSE)
       /\ IsEmpty(cartItems) <=> cartItems = <<>>

\* C12: for the non-free subtotal S of a cart, the eligible rules are exactly
\* those with minOrderValue <= S (a threshold equal to S counts), all of
\* them; the client watch computes this set from the local cart, the server
\* endpoint from the stored cart, and the two agree whenever the two carts
\* have the same non-free subtotal.
C12_Eligibility ==
    LET IsPaid(x) == ~x.free
        S == Subtotal(SelectSeq(cartItems, IsPaid))
        el == Eligible(cartItems, freeProducts)
        client == { el[i].pid : i \in 1..Len(el) }
        server == EligibleFreeProducts(items, ClientCartId)
        Exactly(t) == { fp.productId : fp \in { x \in FreeProductRules : x.minOrderValue <= t } }
    IN freeProducts # <<>> =>
         /\ client = Exactly(S)
         /\ server = Exactly(CartTotal(items, ClientCartId))
         /\ S = CartTotal(items, ClientCartId) => client = server

\* C13: free lines are created and destroyed only by reconciliation: a step in
\* which the server completes a user-invoked operation (POST /api/cart/items,
\* PUT or DELETE /api/cart/items/:id) creates no free line, removes none and
\* changes the quantity of none.
C13_FreeLinesOnlyByReconciliation ==
    [][\A r \in reqs :
          (/\ r.kind \in {"POST", "PUT", "DELETE"}
           /\ \A r2 \in reqs' : r2.rid # r.rid)
          => { l \in items' : l.isFree } = { l \in items : l.isFree }]_vars

C15_GetOrCreateCart ==
    [][\A r \in reqs :
          (r.kind = "GETCART" /\ ~(\E r2 \in reqs' : r2.rid = r.rid /\ r2.phase = r.phase))
          => LET done == \A r2 \in reqs' : r2.rid # r.rid
                 none == r.userId = 0 /\ r.sessionId = 0
                 Owned(cs) == IF r.userId # 0 THEN { c \in cs : c.userId = r.userId }
                              ELSE { c \in cs : c.sessionId = r.sessionId }
             IN /\ none => (done /\ last'.status = 400 /\ carts' = carts)
                /\ (done /\ ~none)
                     => /\ last'.status = 200
                        /\ last'.id \in { c.id : c \in Owned(carts') }
                /\ (done /\ ~none /\ r.alone)
                     => IF Owned(carts) # {}
                        THEN carts' = carts /\ last'.id \in { c.id : c \in Owned(carts) }
                        ELSE /\ last'.id \notin { c.id : c \in carts }
                             /\ carts' = carts \cup { [id |-> last'.id, userId |-> r.userId,
                                                       sessionId |-> r.sessionId] }
                /\ (/\ done /\ ~none /\ r.alone
                    /\ last.kind = "GETCART" /\ last.status = 200 /\ last.req.alone
                    /\ last.req.userId = r.userId /\ last.req.sessionId = r.sessionId)
                     => (last'.id = last.id /\ carts' = carts)]_vars

\* A call that nothing overlapped found the cart an earlier call had created.
C15_Witness ==
    /\ last.kind = "GETCART" /\ last.status = 200
    /\ last.req.alone /\ last.req.cartId # 0
    /\ last.id > MaxCarts
    /\ Cardinality(carts) = 2

\* C16: every read of a cart's lines returns only the line items whose product
\* exists, each joined to it: getCartItemsWithProductDetails does, and every 200
\* of GET /api/cart lists exactly the line items of the cart whose product
\* exists, each with its product; the read changes no stored line item.
C16_ReadsSkipOrphans ==
    [][/\ \A c \in CartDocIds :
             GetCartItemsWithProductDetails(items, c)
               = { l \in items : l.cartId = c /\ l.productId \in products }
       /\ \A r \in reqs :
             (r.kind = "GETCART" /\ (\A r2 \in reqs' : r2.rid # r.rid) /\ last'.status = 200)
             => /\ items' = items
                /\ \A x \in last'.lines : x.product
                /\ { x.id : x \in last'.lines }
                     = { l.id : l \in { y \in items : y.cartId = last'.id
                                                      /\ y.productId \in products } }]_vars

\* C17: DELETE /api/cart/:id deletes every line item of that cart, free and
\* paid alike, answers 204, and leaves the cart documents, the products and
\* the line items of every other cart as they were (the free-product rules are
\* a constant of the model: no step writes them).
C17_ClearCartFrame ==
    [][\A r \in reqs :
          (r.kind = "CLEAR" /\ \A r2 \in reqs' : r2.rid # r.rid)
          => /\ items' = { l \in items : l.cartId # r.cartId }
             /\ last'.kind = "CLEAR" /\ last'.status = 204
             /\ carts' = carts /\ products' = products
             /\ freeProducts' = freeProducts]_vars

\* A clear has deleted the first line item and left the line item of the other cart.
C17_Witness ==
    /\ last.kind = "CLEAR" /\ last.status = 204
    /\ \E l \in items : l.id = 2 /\ l.cartId # ClientCartId
    /\ \A l \in items : l.id # 1 /\ l.cartId # ClientCartId
    /\ reqs = {}

\* C18: client clearCart().  When its server clear call succeeds, the local
\* cart is empty and the server cart has no line items; when a server call it
\* makes (the removal of a free line, or the clear call) fails, the local cart
\* is rolled back to its content before the clear, and that content is the
\* server cart's content.  Stated for a clearCart of a cart whose lines all
\* carry the ids the server gave them (no add of the user is still in flight).
C18_ClientClearCart ==
    [][\A r \in reqs :
          (/\ r.op \in {"clear", "clearRemove"}
           /\ \A i \in 1..Len(r.before) : r.before[i].id > 0
           /\ \A r2 \in reqs' : r2.rid # r.rid)
          => LET local == { [id |-> cartItems'[i].id, productId |-> cartItems'[i].pid,
                             quantity |-> cartItems'[i].qty] : i \in 1..Len(cartItems') }
                 server == { [id |-> l.id, productId |-> l.productId, quantity |-> l.quantity]
                               : l \in { x \in items' : x.cartId = ClientCartId } }
             IN /\ (r.op = "clear" /\ failures' = failures)
                     => (cartItems' = <<>> /\ server = {})
                /\ failures' = failures + 1
                     => (Strip(cartItems') = r.before /\ local = server)]_vars

\* C19: when reconciliation has added the gift of an eligible rule (one or
\* several in the same run) and every request has completed without a failure,
\* the server cart holds for each gift shown locally a line of that product
\* that is marked free and has quantity 1, and the total the server uses for
\* eligibility is the total of the lines of the other products.
C19_GiftStoredAsFree ==
    (Quiescent /\ failures = 0)
    => LET gifts == { cartItems[i].pid : i \in { j \in 1..Len(cartItems) : cartItems[j].free } }
       IN /\ \A i \in 1..Len(cartItems) :
                 cartItems[i].free
                 => \E l \in items : /\ l.cartId = ClientCartId
                                     /\ l.productId = cartItems[i].pid
                                     /\ l.isFree /\ l.quantity = 1
          /\ CartTotal(items, ClientCartId)
               = CartTotalOf({ l \in GetCartItemsWithProductDetails(items, ClientCartId)
                                 : l.productId \notin gifts })

\* C20: failure isolation in reconciliation.  When the effect of one render
\* adds the gifts of several eligible rules and the add of one of them fails,
\* the gift lines of the others are still in the local cart after the failed
\* add has rolled back; and once every request has completed after a failure,
\* each gift shown locally is on the server exactly once, with quantity 1.
C20_FailureIsolation ==
    [][/\ \A r \in reqs :
             (/\ r.op = "addNew" /\ r.gift
              /\ (\A x \in reqs' : x.rid # r.rid) /\ failures' = failures + 1)
             => \A r2 \in reqs \ {r} :
                    (r2.op = "addNew" /\ r2.gift /\ r2.before = r.before)
                    => \E i \in 1..Len(cartItems') :
                           /\ cartItems'[i].pid = r2.productId
                           /\ cartItems'[i].free
       /\ (Quiescent /\ failures > 0)
            => \A i \in 1..Len(cartItems) :
                   cartItems[i].free
                   => LET ls == { l \in items : l.cartId = ClientCartId
                                                /\ l.productId = cartItems[i].pid }
                      IN Cardinality(ls) = 1 /\ \A l \in ls : l.quantity = 1]_vars

\* C21: self-healing.  If the add of a gift has failed, server calls succeed
\* from then on, the user then changes a paid line (with nothing else in
\* flight) and the client comes to rest, then from some point on the free
\* lines of the cart are the products of the eligible rules (minOrderValue <=
\* the total of the non-free lines), in the local cart and in the server cart.
\* Checked under FairSpecHeal, where only gift adds fail.
C21_SelfHealing ==
    LET Mutation ==
            /\ failures = MaxFailures
            /\ \E r \in reqs : /\ r.alone /\ ~r.gift
                               /\ r.op \in {"addNew", "addInc", "update"}
        IsPaid(x) == ~x.free
        localFree == { cartItems[i].pid : i \in { j \in 1..Len(cartItems) : cartItems[j].free } }
        localRules == { fp.productId : fp \in { x \in FreeProductRules :
                            x.minOrderValue <= Subtotal(SelectSeq(cartItems, IsPaid)) } }
        serverFree == { l.productId : l \in { x \in items : x.cartId = ClientCartId /\ x.isFree } }
        serverRules == { fp.productId : fp \in { x \in FreeProductRules :
                            x.minOrderValue <= CartTotal(items, ClientCartId) } }
    IN (<>Mutation /\ <>[]Quiescent)
         => <>[](localFree = localRules /\ serverFree = serverRules)

\* C22: reconciliation is idempotent.  When the effect is about to run on the
\* local cart, a second run on the cart the first run leaves (same paid lines,
\* same rules, the first run's requests still in flight) calls neither addItem
\* nor removeItem.
C22_ReconciliationIdempotent ==
    (RenderReady /\ freeProducts # <<>>)
    => \A sameMs \in BOOLEAN :
          LET first == RunCalls(Closure(cartItems, reqs),
                                EffectCalls(cartItems, freeProducts), sameMs)
          IN EffectCalls(first.cart, freeProducts) = <<>>

\* C23: addItem for a product that is not in the local cart appends one
\* temporary line with quantity 1; and when its create call succeeds, with no
\* request having failed, the local cart then holds exactly one line for that
\* product, that line carries the id the server gave it (so later
\* updateQuantity and removeItem calls address that id), and no line carries
\* the temporary id.
C23_TemporaryLineReplaced ==
    [][/\ \A r \in reqs' :
             (r.op = "addNew" /\ failures = 0 /\ \A x \in reqs : x.rid # r.rid)
             => Cardinality({ i \in 1..Len(cartItems') :
                                 /\ cartItems'[i].id = r.tempId
                                 /\ cartItems'[i].pid = r.productId
                                 /\ cartItems'[i].qty = 1 }) = 1
       /\ \A r \in reqs :
             (/\ r.op = "addNew" /\ r.phase = "found"
              /\ (\A x \in reqs' : x.rid # r.rid)
              /\ items' # items
              /\ failures' = 0
              /\ sent' = 1)
             => LET ids == { l.id : l \in { x \in items' : /\ x.cartId = ClientCartId
                                                          /\ x.productId = r.productId } }
                    lines == { i \in 1..Len(cartItems') : cartItems'[i].pid = r.productId }
                IN /\ Cardinality(lines) = 1
                   /\ \A i \in lines : cartItems'[i].id \in ids
                   /\ \A i \in 1..Len(cartItems') : cartItems'[i].id # r.tempId]_vars

\* C24: two overlapping addItem calls of the user for one product.  The second
\* call, issued while the line still carries its temporary id (the first call's
\* response has not arrived), is answered with success; and when it is the last
\* request to complete, the local cart and the server cart each hold exactly
\* one line for the product, with the quantity of two sequential calls or one
\* increment less.
C24_OverlappingAdds ==
    [][\A r \in reqs :
          (/\ r.op = "addInc" /\ ~r.gift /\ r.id < 0
           /\ (\A x \in reqs' : x.rid # r.rid)
           /\ failures' = failures)
          => LET ps == { r.prev[i].pid : i \in { j \in 1..Len(r.prev) : r.prev[j].id = r.id } }
                 local == { i \in 1..Len(cartItems') : cartItems'[i].pid \in ps }
                 server == { l \in items' : l.cartId = ClientCartId /\ l.productId \in ps }
             IN /\ ResOk(PutCartItem(items, r.id, r.quantity).status)
                /\ reqs' = {}
                     => /\ Cardinality(local) = 1 /\ Cardinality(server) = 1
                        /\ \A i \in local : cartItems'[i].qty \in {r.quantity - 1, r.quantity}
                        /\ \A l \in server : l.quantity \in {r.quantity - 1, r.quantity}]_vars

\* C25: after any sequence of cart API operations every line item marked free
\* has quantity 1; and every 201 of POST /api/cart/:cartId/add-free-product
\* leaves in that cart a line of the product with isFree = true and quantity
\* 1, also when the cart already holds the product as a paid line.
C25_FreeLineQuantityOne ==
    [][/\ \A l \in items' : l.isFree => l.quantity = 1
       /\ \A r \in reqs :
             (/\ r.kind = "ADDFREE" /\ (\A x \in reqs' : x.rid # r.rid)
              /\ last'.kind = "ADDFREE" /\ last'.status = 201)
             => \E l \in items' : /\ l.cartId = r.cartId /\ l.productId = r.productId
                                  /\ l.isFree /\ l.quantity = 1]_vars

\* C26: the reconciliation watch reaches a fixed point.  On a server that
\* answers every request, once the user acts no more (the user's operations
\* are bounded), from some point on no step changes the local cart and no step
\* sends a request.  Checked under FairSpecClient.
C26_WatchFixedPoint ==
    <>[][/\ cartItems' = cartItems
         /\ { r.rid : r \in reqs' } \subseteq { r.rid : r \in reqs }]_vars

(***************************************************************************)
(* SpecPage: the product page on top of CartProvider.  handleAddToCart     *)
(* calls addItem(product) quantity times without awaiting: every call runs *)
(* on the cartItems of the render the handler belongs to.  SpecPage is the *)
(* behaviours in which every server call succeeds; sent counts the addItem *)
(* calls the page has made.                                                *)
(***************************************************************************)
PageProductIds == {1}

\* for (let i = 0; i < quantity; i++) { addItem(product!); }
RECURSIVE AddItemTimes(_, _, _, _)
AddItemTimes(st, p, n, sameMs) ==
    IF n = 0 THEN st
    ELSE AddItemTimes(CallAddItem(st, p, FALSE, sameMs), p, n - 1, sameMs)

handleAddToCart ==
    /\ ~dirty
    /\ \E p \in PageProductIds, quantity \in 1..MaxPageQty, sameMs \in BOOLEAN :
         /\ sent + quantity <= MaxPageAdds
         /\ Cardinality(reqs) + quantity <= MaxInFlight
         /\ TempRoom(quantity)
         /\ LET st == AddItemTimes(Closure(cartItems, reqs), p, quantity, sameMs)
            IN /\ cartItems' = st.cart
               /\ reqs' = st.reqs
               /\ dirty' = (dirty \/ st.set)
               /\ sent' = sent + quantity
    /\ UNCHANGED <<items, last, freeProducts, failures, carts, products, orders, user>>

\* The server would answer the request r, at the step it is at, without an
\* error status: apiRequest does not throw.
CallSucceeds(r) ==
    IF r.kind = "POST" /\ r.phase = "sent" THEN r.quantity >= 1
    ELSE IF r.kind = "POST"
    THEN AddCartItemSave(items, r.found, r.foundQty, r.cartId, r.productId,
                         r.quantity, r.isFree, IF r.found # 0 THEN 0 ELSE FreshId).ok
    ELSE IF r.kind = "PUT" THEN ResOk(PutCartItem(items, r.id, r.quantity).status)
    ELSE IF r.kind = "DELETE" THEN ResOk(DeleteCartItem(items, r.id).status)
    ELSE ResOk(DeleteCart(items, r.cartId).status)

\* The routes CartProvider calls, in the behaviours in which every server call
\* succeeds.
ServerPage ==
    \E r \in reqs :
        /\ CallSucceeds(r)
        /\ \/ PostFind(r)
           \/ AddSave(r)
           \/ PutItem(r)

NextPage ==
    \/ LoadFreeProducts
    \/ Render
    \/ handleAddToCart
    \/ ServerPage

SpecPage == Init /\ [][NextPage]_vars

\* C27: adding from the product page.  With every server call succeeding, once
\* nothing is pending the quantity of the product in the local cart and in the
\* server cart is the number of addItem calls the page has made for it (each
\* handleAddToCart with quantity N adds exactly N), the two agreeing.  Checked
\* under SpecPage.
C27_PageAddQuantity ==
    Quiescent =>
        \A p \in PageProductIds :
            LET OfP(x) == x.pid = p
                local == SelectSeq(cartItems, OfP)
                server == { l \in items : l.cartId = ClientCartId /\ l.productId = p }
            IN /\ Len(local) = (IF sent = 0 THEN 0 ELSE 1)
               /\ \A i \in 1..Len(local) : local[i].qty = sent
               /\ Cardinality(server) = (IF sent = 0 THEN 0 ELSE 1)
               /\ \A l \in server : l.quantity = sent

\* C28: one cart per owner.  For every interleaving of GET /api/cart requests,
\* when a request that names an owner (a userId, or a sessionId with no userId)
\* is answered, at most one cart record exists for that owner, and the request
\* is answered 200 with that cart's id.  Checked under SpecCart.
C28_OneCartPerOwner ==
    [][\A r \in reqs :
          (/\ r.kind = "GETCART" /\ (r.userId # 0 \/ r.sessionId # 0)
           /\ \A r2 \in reqs' : r2.rid # r.rid)
          => LET owned == IF r.userId # 0 THEN { c \in carts' : c.userId = r.userId }
                          ELSE { c \in carts' : c.userId = 0 /\ c.sessionId = r.sessionId }
             IN /\ last'.status = 200
                /\ Cardinality(owned) <= 1
                /\ owned # {} => last'.id \in { c.id : c \in owned }]_vars

(***************************************************************************)
(* SpecOrders: POST /api/orders driven by arbitrary requests.  The path is *)
(* registered twice on the same app; Express runs the handlers of a path   *)
(* in the order of registration, and the first one always ends the         *)
(* response without calling next(), so it is the one that runs.            *)
(***************************************************************************)
PaymentMethods == {"cod", "COD", "Cod", "razorpay"}
OrderStatuses == {"pending", "processing", "delivered"}

\* String.prototype.toLowerCase on the payment methods
ToLowerCase(str) == IF str \in {"cod", "COD", "Cod"} THEN "cod" ELSE str

\* orderPayloadSchema.parse(req.body) succeeds: status and paymentMethod are
\* strings, every item has quantity >= 1 (itemQuantity 0: a body without items;
\* -1: a body with an item of quantity 0).
OrderPayloadValid(r) == r.itemQuantity >= 0

\* MongoDBStorage.createOrder and addOrderItem: the order document as stored,
\* with its items.
CreateOrder(os, id, order, itemQuantity) ==
    os \cup { [id |-> id, status |-> order.status, paymentMethod |-> order.paymentMethod,
               itemQuantity |-> itemQuantity] }

\* The order the first registration stores: the parsed body as it is.
FirstPostOrders(r) == [status |-> r.status, paymentMethod |-> r.paymentMethod]

\* The order the second registration stores: {...order, status: initialStatus}.
SecondPostOrders(r) ==
    [status |-> IF ToLowerCase(r.paymentMethod) = "cod" THEN "pending" ELSE "processing",
     paymentMethod |-> r.paymentMethod]

\* The registrations of POST /api/orders in the order of app.post calls.
PostOrdersHandlers == << "first", "second" >>

\* POST /api/orders: 400 on an invalid payload, else the order and its items
\* are stored and the route answers 201.
PostOrders(r) ==
    /\ r.kind = "POSTORDER" /\ r.phase = "sent"
    /\ reqs' = reqs \ {r}
    /\ IF ~OrderPayloadValid(r)
       THEN /\ orders' = orders
            /\ last' = [NoResponse EXCEPT !.kind = r.kind, !.status = 400, !.body = "message",
                                          !.req = [r EXCEPT !.rid = 0]]
       ELSE LET id == Cardinality(orders) + 1
                order == IF Head(PostOrdersHandlers) = "first" THEN FirstPostOrders(r)
                         ELSE SecondPostOrders(r)
            IN /\ orders' = CreateOrder(orders, id, order, r.itemQuantity)
               /\ last' = [NoResponse EXCEPT !.kind = r.kind, !.status = 201, !.body = "order",
                                             !.id = id, !.req = [r EXCEPT !.rid = 0]]
    /\ UNCHANGED <<items, cartItems, freeProducts, dirty, failures, sent, carts, products, user>>

ServerOrders == \E r \in reqs : PostOrders(r)

\* POST /api/orders {order: {status, paymentMethod, ...}, items}
ApiPostOrder ==
    \E pm \in PaymentMethods, st \in OrderStatuses, q \in (-1)..1 :
        /\ sent < MaxOrders
        /\ Send([NoReq EXCEPT !.kind = "POSTORDER", !.paymentMethod = pm, !.status = st,
                              !.itemQuantity = q])

NextOrders ==
    \/ ApiPostOrder
    \/ ServerOrders

SpecOrders == Init /\ [][NextOrders]_vars

\* C29: every order created through POST /api/orders is stored with status
\* 'pending' when its paymentMethod is 'cod' in any letter case and with
\* 'processing' otherwise, whatever status the request body carries.  Checked
\* under SpecOrders.
C29_InitialOrderStatus ==
    \A o \in orders :
        o.status = IF o.paymentMethod \in {"cod", "COD", "Cod"} THEN "pending"
                   ELSE "processing"

(***************************************************************************)
(* SpecAuth: the password reset routes driven by arbitrary requests, each  *)
(* handler split between its findOne and its save.  A reset token is the   *)
(* number of its issue; the tokens signed so far are 1..user.issued, and   *)
(* no token expires within a behaviour.  sendMail succeeds.                *)
(***************************************************************************)
RegisteredEmail == 1

\* The response of a password reset route.
RespondAuth(r, status, u) ==
    /\ reqs' = reqs \ {r}
    /\ last' = [NoResponse EXCEPT !.kind = r.kind, !.status = status, !.body = "message",
                                  !.req = [r EXCEPT !.rid = 0]]
    /\ user' = u
    /\ UNCHANGED <<items, cartItems, freeProducts, dirty, failures, sent, carts, products,
                   orders>>

\* jwt.verify(token, JWT_SECRET) succeeds: the server has signed the token.
JwtVerify(token) == token >= 1 /\ token <= user.issued

\* POST /api/auth/forgot-password up to UserModel.findOne({email}): 400 without
\* an email, 200 when no user has it.
ForgotFind(r) ==
    /\ r.kind = "FORGOT" /\ r.phase = "sent"
    /\ IF r.email = 0 THEN RespondAuth(r, 400, user)
       ELSE IF r.email # RegisteredEmail THEN RespondAuth(r, 200, user)
       ELSE Advance(r, [r EXCEPT !.phase = "found"])

\* forgot-password from jwt.sign: the new token is saved on the user, the mail
\* is sent, 200.
ForgotSave(r) ==
    /\ r.kind = "FORGOT" /\ r.phase = "found"
    /\ user.issued < MaxTokens
    /\ LET token == user.issued + 1
       IN RespondAuth(r, 200,
                      [user EXCEPT !.resetPasswordToken = token, !.issued = token,
                                   !.replaced = IF user.resetPasswordToken = 0 THEN @
                                                ELSE @ \cup {user.resetPasswordToken}])

\* POST /api/auth/reset-password up to UserModel.findOne({id, resetPasswordToken:
\* token, ...}): 400 on a missing field, on a token jwt.verify rejects and when
\* no user holds the token.
ResetFind(r) ==
    /\ r.kind = "RESET" /\ r.phase = "sent"
    /\ IF r.token = 0 \/ r.password = 0 THEN RespondAuth(r, 400, user)
       ELSE IF ~JwtVerify(r.token) THEN RespondAuth(r, 400, user)
       ELSE IF user.resetPasswordToken # r.token THEN RespondAuth(r, 400, user)
       ELSE Advance(r, [r EXCEPT !.phase = "found"])

\* reset-password from bcrypt.hash: the password is set, the token is cleared,
\* userRecord.save(), 200.
ResetSave(r) ==
    /\ r.kind = "RESET" /\ r.phase = "found"
    /\ RespondAuth(r, 200,
                   [user EXCEPT !.password = BcryptHash(r.password),
                                !.resetPasswordToken = 0,
                                !.used = @ \cup {r.token}])

ServerAuth ==
    \E r \in reqs :
        \/ ForgotFind(r)
        \/ ForgotSave(r)
        \/ ResetFind(r)
        \/ ResetSave(r)

\* POST /api/auth/forgot-password {email} (0: no email)
ApiForgotPassword ==
    \E e \in 0..2 : Send([NoReq EXCEPT !.kind = "FORGOT", !.email = e])

\* POST /api/auth/reset-password {token, password} (0: the field is missing)
ApiResetPassword ==
    \E t \in 0..MaxTokens, pw \in 0..2 :
        Send([NoReq EXCEPT !.kind = "RESET", !.token = t, !.password = pw])

NextAuth ==
    \/ ApiForgotPassword
    \/ ApiResetPassword
    \/ ServerAuth

SpecAuth == Init /\ [][NextAuth]_vars

\* C30: a password reset token is single-use.  A reset request that is
\* answered when a reset with the same token has already succeeded, or when a
\* later forgot-password has replaced its token, is answered 400 and leaves
\* the stored password as it was, whether it was sent after or while the other
\* request was handled.  Checked under SpecAuth.
C30_ResetTokenSingleUse ==
    [][\A r \in reqs :
          (/\ r.kind = "RESET"
           /\ \A r2 \in reqs' : r2.rid # r.rid
           /\ r.token \in user.used \cup user.replaced)
          => (last'.status = 400 /\ user'.password = user.password)]_vars

====
